---- MODULE Spec2Model ----
(***************************************************************************)
(* Model of session::projects::ProjectContext                              *)
(* (src/cpp/session/projects/SessionProjectContext.cpp): the two-phase     *)
(* startup/initialize lifecycle, the scratch path computation, and the     *)
(* file monitor callbacks that are rebroadcast to subscribers.             *)
(*                                                                         *)
(* Paths are sequences of path elements; <<"/">> is the file system root   *)
(* and <<>> is the empty (default constructed) FilePath.                   *)
(***************************************************************************)
EXTENDS Integers, Sequences, FiniteSets, TLC

\* ------------------------------------------------------------------ bounds
MaxSubscribers == 2      \* registerFileMonitorCallbacks calls
MaxInitialize  == 2      \* initialize calls that reach the subscription
MaxRequests    == 2      \* registerMonitor requests issued over a run

\* ------------------------------------------------------------ path helpers
EmptyPath == <<>>
Root      == <<"/">>

\* FilePath::complete for a single relative element
complete(path, name) == Append(path, name)

\* FilePath::parent
parent(path) == IF Len(path) <= 1 THEN EmptyPath ELSE SubSeq(path, 1, Len(path) - 1)

\* FilePath::isWithin: a path is within itself, otherwise walk up its parents
RECURSIVE isWithin(_, _)
isWithin(path, scopePath) ==
    IF path = scopePath THEN TRUE
    ELSE IF Len(path) <= 1 THEN FALSE
    ELSE isWithin(parent(path), scopePath)

\* --------------------------------------------------------- the environment
DirP == <<"/", "p">>
DirQ == <<"/", "q">>
FileP == complete(DirP, "proj.Rproj")
FileQ == complete(DirQ, "other.Rproj")
ProjectFiles == {FileP, FileQ}

\* directories isMonitoringDirectory is queried with: the root (a parent of
\* both project directories), the project directories, and nested ones
QueryDirs == {Root, DirP, DirQ, complete(DirP, "src"),
              complete(complete(DirP, "src"), "cpp"), complete(DirQ, "R")}

Usernames == {"", "alice"}
contextId == "ctx1"

AllFields == {"useSpacesForTab", "numSpacesForTab", "encoding"}

\* contents a project file can have on disk: fields present in the file
\* come with a value, a malformed file does not parse
FullContent ==
    [valid |-> TRUE, present |-> AllFields,
     useSpacesForTab |-> FALSE, numSpacesForTab |-> 4, encoding |-> "ISO-8859-1"]
PartialContent ==
    [valid |-> TRUE, present |-> {"useSpacesForTab"},
     useSpacesForTab |-> FALSE, numSpacesForTab |-> 0, encoding |-> ""]
MalformedContent ==
    [valid |-> FALSE, present |-> {},
     useSpacesForTab |-> FALSE, numSpacesForTab |-> 0, encoding |-> ""]
Contents == {FullContent, PartialContent, MalformedContent}

\* userSettings(): tab settings, and the default encoding (may be empty)
SettingsEncodings == {"", "windows-1252"}
settingsUseSpacesForTab == TRUE
settingsNumSpacesForTab == 2

\* a default constructed RProjectConfig (no project loaded)
NoConfig == [useSpacesForTab |-> TRUE, numSpacesForTab |-> 0, encoding |-> ""]

\* outcomes of the R call .rs.validateAndNormalizeEncoding
CallError == "<call error>"
NormalizeOutcomes == {CallError, "", "ISO8859-1"}

\* the five callback kinds of core::system::file_monitor::Callbacks
Kinds == {"onRegistered", "onRegistrationError", "onMonitoringError",
          "onFilesChanged", "onUnregistered"}
\* the callback sets subscribers pass to registerFileMonitorCallbacks
CallbackSets == {{"onFilesChanged"}, Kinds \ {"onFilesChanged"}}

Batches == {"batch1", "batch2"}

VARIABLES
    \* ---- the file system and the process environment
    fsDirs,          \* existing directories
    fsReadOnly,      \* existing directories nothing can be created in
    fsFiles,         \* existing project files -> content
    username,        \* core::system::username()
    settingsEncoding,\* userSettings().defaultEncoding()
    \* ---- ProjectContext members
    file_, directory_, scratchPath_, config_, hasFileMonitor_, defaultEncoding_,
    \* ---- boost signals owned by the context: kind -> sequence of slots
    signals,
    registered,      \* callback sets passed to registerFileMonitorCallbacks
    answersDelivered,\* per subscriber: onRegistered / onRegistrationError calls it got
    \* ---- collaborators
    deferredInitSlots, \* slots connected to module_context::events().onDeferredInit
    requests,          \* registerMonitor requests issued (in order)
    resolved,          \* how many of them the file monitor has answered
    handles,           \* handles of live monitors
    \* ---- what the last call did (observation of one call)
    last

fsVars  == <<fsDirs, fsReadOnly, fsFiles, username, settingsEncoding>>
ctxVars == <<file_, directory_, scratchPath_, config_, hasFileMonitor_, defaultEncoding_>>
monVars == <<deferredInitSlots, requests, resolved, handles>>
vars == <<fsVars, ctxVars, signals, registered, answersDelivered, monVars, last>>

\* the observation record of a call
NoCall ==
    [op |-> "none", arg |-> <<>>, result |-> "ok", userErrMsg |-> "",
     hadProject |-> FALSE,
     probes |-> 0, scratchCalls |-> 0, created |-> {}, reads |-> 0, writes |-> 0,
     writeOk |-> TRUE, providedDefaults |-> FALSE,
     normalizeCalls |-> 0, normalized |-> "", events |-> <<>>, connects |-> 0,
     requestsIssued |-> 0, returned |-> <<>>,
     trace |-> <<>>]

\* --------------------------------------------------- file system operations
\* FilePath::exists
exists(path) == path \in fsDirs \/ path \in DOMAIN fsFiles

\* content of a project file as the reader sees it (an absent file does not parse)
contentOf(projectFile) ==
    IF projectFile \in DOMAIN fsFiles THEN fsFiles[projectFile] ELSE MalformedContent

\* FilePath::ensureDirectory on the directory set dirs: nothing to do when the
\* path exists, otherwise create it (which needs a parent one can create in)
ensureDirectory(path, dirs) ==
    IF path \in dirs THEN [error |-> FALSE, dirs |-> dirs]
    ELSE IF parent(path) \in dirs /\ parent(path) \notin fsReadOnly
         THEN [error |-> FALSE, dirs |-> dirs \cup {path}]
         ELSE [error |-> TRUE, dirs |-> dirs]

\* canWriteToProjectDir: write a uniquely named test file and remove it again
canWriteToProjectDirAlways(projectDirPath) == TRUE
canWriteToProjectDir(projectDirPath) ==
    projectDirPath \in fsDirs /\ projectDirPath \notin fsReadOnly

\* test for project file existence (startup, first check)
projectFileMissingNever(projectFile) == FALSE
projectFileMissing(projectFile) == ~exists(projectFile)

\* computeScratchPath: [error, scratchPath, dirs], dirs being the directories
\* that exist afterwards (those created before a failure stay)
computeScratchPathUserLevelAlways(projectFile) ==
    LET projectUserDir == complete(parent(projectFile), ".Rproj.user")
        r1 == ensureDirectory(projectUserDir, fsDirs)
        userDir == complete(projectUserDir, username)
        r2 == IF r1.error THEN r1 ELSE ensureDirectory(userDir, r1.dirs)
        scratchPath == complete(userDir, contextId)
        r3 == IF r2.error THEN r2 ELSE ensureDirectory(scratchPath, r2.dirs)
    IN  [error |-> r3.error,
         scratchPath |-> IF r3.error THEN EmptyPath ELSE scratchPath,
         dirs |-> r3.dirs]
computeScratchPath(projectFile) ==
    LET projectUserDir == complete(parent(projectFile), ".Rproj.user")
        r1 == IF ~(projectUserDir \in fsDirs)
              THEN ensureDirectory(projectUserDir, fsDirs)
              ELSE [error |-> FALSE, dirs |-> fsDirs]
    IN  IF r1.error
        THEN [error |-> TRUE, scratchPath |-> EmptyPath, dirs |-> r1.dirs]
        ELSE
        LET userDir == IF username /= "" THEN complete(projectUserDir, username)
                       ELSE projectUserDir
            r2 == IF username /= "" THEN ensureDirectory(userDir, r1.dirs) ELSE r1
        IN  IF r2.error
            THEN [error |-> TRUE, scratchPath |-> EmptyPath, dirs |-> r2.dirs]
            ELSE
            LET scratchPath == complete(userDir, contextId)
                r3 == ensureDirectory(scratchPath, r2.dirs)
            IN  IF r3.error
                THEN [error |-> TRUE, scratchPath |-> EmptyPath, dirs |-> r3.dirs]
                ELSE [error |-> FALSE, scratchPath |-> scratchPath, dirs |-> r3.dirs]

\* ------------------------------------------------------------ project config
\* ProjectContext::defaultConfig
defaultConfig ==
    [useSpacesForTab |-> settingsUseSpacesForTab,
     numSpacesForTab |-> settingsNumSpacesForTab,
     encoding |-> IF settingsEncoding /= "" THEN settingsEncoding ELSE "UTF-8"]

\* r_util::readProjectFile: fields the file does not have come from the
\* defaults, and providedDefaults says whether any did
readProjectFile(content, defaults) ==
    IF ~content.valid
    THEN [error |-> TRUE, config |-> NoConfig, providedDefaults |-> FALSE,
          userErrMsg |-> "the project file is not valid"]
    ELSE [error |-> FALSE,
          config |->
            [useSpacesForTab |-> IF "useSpacesForTab" \in content.present
                                 THEN content.useSpacesForTab
                                 ELSE defaults.useSpacesForTab,
             numSpacesForTab |-> IF "numSpacesForTab" \in content.present
                                 THEN content.numSpacesForTab
                                 ELSE defaults.numSpacesForTab,
             encoding |-> IF "encoding" \in content.present
                          THEN content.encoding ELSE defaults.encoding],
          providedDefaults |-> content.present /= AllFields,
          userErrMsg |-> ""]

\* r_util::writeProjectFile: the content the file has after a successful write
writtenContent(config) ==
    [valid |-> TRUE, present |-> AllFields,
     useSpacesForTab |-> config.useSpacesForTab,
     numSpacesForTab |-> config.numSpacesForTab,
     encoding |-> config.encoding]

\* number of rewrites of the project file startup attempts after the read
rewriteAttemptsAlways(providedDefaults) == 1
rewriteAttempts(providedDefaults) == IF providedDefaults THEN 1 ELSE 0

\* ------------------------------------------------------------------ startup
\* the members as they are now
currentMembers ==
    [file |-> file_, directory |-> directory_, scratchPath |-> scratchPath_,
     config |-> config_, hasFileMonitor |-> hasFileMonitor_]

\* "initialize members" at the end of a successful startup
startupMembersFileAsDirectory(projectFile, scratchPath, config) ==
    [file |-> projectFile, directory |-> projectFile, scratchPath |-> scratchPath,
     config |-> config, hasFileMonitor |-> TRUE]
startupMembers(projectFile, scratchPath, config) ==
    [file |-> projectFile, directory |-> parent(projectFile),
     scratchPath |-> scratchPath, config |-> config, hasFileMonitor |-> TRUE]

\* the members after a startup that returns an error at the given stage: every
\* error return precedes the member assignments
failedStartupMembersEarlyIdentity(stage, projectFile, scratchPath) ==
    IF stage = "loadError"
    THEN [currentMembers EXCEPT !.file = projectFile,
                                !.directory = parent(projectFile),
                                !.scratchPath = scratchPath]
    ELSE currentMembers
failedStartupMembers(stage, projectFile, scratchPath) == currentMembers

\* the whole of ProjectContext::startup for a project file; writeOk is whether
\* writeProjectFile would succeed
startupOutcome(projectFile, writeOk) ==
    LET base == [NoCall EXCEPT !.op = "startup", !.arg = projectFile,
                               !.hadProject = (file_ /= EmptyPath)]
    IN
    IF projectFileMissing(projectFile)
    THEN [obs |-> [base EXCEPT !.result = "pathNotFound",
                               !.userErrMsg = "the project file does not exist"],
          dirs |-> fsDirs, files |-> fsFiles,
          members |-> failedStartupMembers("pathNotFound", projectFile, EmptyPath)]
    ELSE IF ~canWriteToProjectDir(parent(projectFile))
    THEN [obs |-> [base EXCEPT !.result = "permissionDenied",
                               !.userErrMsg = "the project directory is not writeable",
                               !.probes = 1],
          dirs |-> fsDirs, files |-> fsFiles,
          members |-> failedStartupMembers("permissionDenied", projectFile, EmptyPath)]
    ELSE
    LET sp == computeScratchPath(projectFile)
        created == sp.dirs \ fsDirs
    IN
    IF sp.error
    THEN [obs |-> [base EXCEPT !.result = "ioError",
                               !.userErrMsg = "unable to initialize project - io error",
                               !.probes = 1, !.scratchCalls = 1, !.created = created],
          dirs |-> sp.dirs, files |-> fsFiles,
          members |-> failedStartupMembers("ioError", projectFile, EmptyPath)]
    ELSE
    LET rd == readProjectFile(contentOf(projectFile), defaultConfig)
    IN
    IF rd.error
    THEN [obs |-> [base EXCEPT !.result = "loadError", !.userErrMsg = rd.userErrMsg,
                               !.probes = 1, !.scratchCalls = 1, !.created = created,
                               !.reads = 1],
          dirs |-> sp.dirs, files |-> fsFiles,
          members |-> failedStartupMembers("loadError", projectFile, sp.scratchPath)]
    ELSE
    LET writes == rewriteAttempts(rd.providedDefaults)
    IN
    [obs |-> [base EXCEPT !.result = "ok",
                          !.probes = 1, !.scratchCalls = 1, !.created = created,
                          !.reads = 1, !.writes = writes,
                          !.writeOk = (writes = 0 \/ writeOk),
                          !.providedDefaults = rd.providedDefaults],
     dirs |-> sp.dirs,
     files |-> IF writes > 0 /\ writeOk /\ projectFile \in DOMAIN fsFiles
               THEN [fsFiles EXCEPT ![projectFile] = writtenContent(rd.config)]
               ELSE fsFiles,
     members |-> startupMembers(projectFile, sp.scratchPath, rd.config)]

startup(projectFile, writeOk) ==
    LET out == startupOutcome(projectFile, writeOk)
    IN  /\ fsDirs' = out.dirs
        /\ fsFiles' = out.files
        /\ file_' = out.members.file
        /\ directory_' = out.members.directory
        /\ scratchPath_' = out.members.scratchPath
        /\ config_' = out.members.config
        /\ hasFileMonitor_' = out.members.hasFileMonitor
        /\ last' = out.obs
        /\ UNCHANGED <<fsReadOnly, username, settingsEncoding, defaultEncoding_,
                       signals, registered, answersDelivered, monVars>>

\* --------------------------------------------------------------- initialize
\* hasProject(): a project file has been set
hasProject == file_ /= EmptyPath

\* hasFileMonitor()
hasFileMonitor == hasFileMonitor_

\* the kShowWarningBar client event initialize enqueues
warningEvent(encoding) ==
    [type |-> "show_warning_bar", severe |-> FALSE, encoding |-> encoding]

\* the encoding initialize settles on for the string the R call returned
resolveEncodingNoFallback(normalized) == normalized
resolveEncoding(normalized) == IF normalized = "" THEN "UTF-8" ELSE normalized

\* the events initialize enqueues for the string the R call returned
encodingEventsAlways(normalized) == <<warningEvent(config_.encoding)>>
encodingEvents(normalized) ==
    IF normalized = "" THEN <<warningEvent(config_.encoding)>> ELSE <<>>

\* initialize when a project is active; normalized is the outcome of the call
\* of .rs.validateAndNormalizeEncoding
initializeWithProject(normalized) ==
    LET base == [NoCall EXCEPT !.op = "initialize", !.hadProject = hasProject,
                               !.normalizeCalls = 1]
    IN
    IF normalized = CallError
    \* a failed call returns before its result is stored in defaultEncoding_
    THEN [obs |-> [base EXCEPT !.result = "callError", !.normalized = normalized],
          defaultEncoding |-> defaultEncoding_, connects |-> 0]
    ELSE [obs |-> [base EXCEPT !.normalized = normalized,
                               !.events = encodingEvents(normalized),
                               !.connects = 1],
          defaultEncoding |-> resolveEncoding(normalized), connects |-> 1]

\* the whole of ProjectContext::initialize; normalized is the outcome of the
\* call of .rs.validateAndNormalizeEncoding, were it made
initializeOutcomeUnguarded(normalized) == initializeWithProject(normalized)
initializeOutcome(normalized) ==
    IF hasProject
    THEN initializeWithProject(normalized)
    ELSE [obs |-> [NoCall EXCEPT !.op = "initialize", !.hadProject = hasProject],
          defaultEncoding |-> defaultEncoding_, connects |-> 0]

initialize(normalized) ==
    LET out == initializeOutcome(normalized)
    IN  /\ deferredInitSlots + out.connects <= MaxInitialize
        /\ defaultEncoding_' = out.defaultEncoding
        /\ deferredInitSlots' = deferredInitSlots + out.connects
        /\ last' = out.obs
        /\ UNCHANGED <<fsVars, file_, directory_, scratchPath_, config_,
                       hasFileMonitor_, signals, registered, answersDelivered,
                       requests, resolved, handles>>

\* ProjectContext::defaultEncoding
defaultEncoding == defaultEncoding_

\* ProjectContext::uiPrefs
uiPrefs ==
    [use_spaces_for_tab |-> config_.useSpacesForTab,
     num_spaces_for_tab |-> config_.numSpacesForTab,
     default_encoding |-> defaultEncoding]

\* --------------------------------------------------------- file monitoring
\* ProjectContext::onDeferredInit: the registerMonitor request it issues
onDeferredInitNotRecursive ==
    [path |-> directory_, recursive |-> FALSE, filter |-> "fileListingFilter"]
onDeferredInit ==
    [path |-> directory_, recursive |-> TRUE, filter |-> "fileListingFilter"]

\* the deferred-init signal fires: every connected slot runs onDeferredInit
deferredInitFires ==
    /\ Len(requests) + deferredInitSlots <= MaxRequests
    /\ requests' = requests \o [i \in 1..deferredInitSlots |-> onDeferredInit]
    /\ last' = [NoCall EXCEPT !.op = "deferredInit", !.hadProject = hasProject,
                              !.requestsIssued = deferredInitSlots]
    /\ UNCHANGED <<fsVars, ctxVars, signals, registered, answersDelivered,
                   deferredInitSlots, resolved, handles>>

\* signal::connect: the slot goes to the back of the slot list
connectFront(slots, sub) == <<sub>> \o slots
connect(slots, sub) == Append(slots, sub)

\* ProjectContext::registerFileMonitorCallbacks; cb is the set of callbacks
\* the caller filled in
registerFileMonitorCallbacks(cb) ==
    /\ Len(registered) < MaxSubscribers
    /\ LET sub == Len(registered) + 1
       IN  signals' = [k \in Kinds |-> IF k \in cb THEN connect(signals[k], sub)
                                       ELSE signals[k]]
    /\ registered' = Append(registered, cb)
    /\ answersDelivered' = Append(answersDelivered, 0)
    /\ last' = [NoCall EXCEPT !.op = "registerFileMonitorCallbacks",
                              !.hadProject = hasProject]
    /\ UNCHANGED <<fsVars, ctxVars, monVars>>

\* a signal is invoked: its slots are called in slot-list order; monitor is
\* what hasFileMonitor() returns while they run
broadcastSkippingLast(kind, payload, monitor) ==
    [i \in 1..(Len(signals[kind]) - 1) |->
        [what |-> "call", sub |-> signals[kind][i], kind |-> kind,
         payload |-> payload, monitor |-> monitor]]
broadcast(kind, payload, monitor) ==
    [i \in 1..Len(signals[kind]) |->
        [what |-> "call", sub |-> signals[kind][i], kind |-> kind,
         payload |-> payload, monitor |-> monitor]]

\* module_context::enqueFileChangedEvents
enqueFileChangedEvents(dir, events, monitor) ==
    [what |-> "enqueFileChangedEvents", sub |-> 0, kind |-> "onFilesChanged",
     payload |-> <<dir, events>>, monitor |-> monitor]

\* hasFileMonitor_ as each handler leaves it
monitorAfterRegistrationErrorKept == hasFileMonitor_
monitorAfterRegistrationError == FALSE
monitorAfterRegistered == TRUE
monitorAfterUnregisteredKept == hasFileMonitor_
monitorAfterUnregistered == FALSE
monitorAfterMonitoringErrorCleared == FALSE
monitorAfterMonitoringError == hasFileMonitor_

\* hasFileMonitor() as the slots of each signal see it: the handlers assign
\* the flag before they invoke the signal
monitorSeenByRegisteredSlots == monitorAfterRegistered
monitorSeenByRegistrationErrorSlotsStale == hasFileMonitor_
monitorSeenByRegistrationErrorSlots == monitorAfterRegistrationError
monitorSeenByUnregisteredSlots == monitorAfterUnregistered

\* the monitor handles the context keeps in a member: no handler stores its
\* handle argument, it is only passed on to the subscribers
handlesKept == {}

\* the requests the file monitor has not answered yet
pending == Len(requests) - resolved

\* ProjectContext::fileMonitorRegistered
fileMonitorRegistered(handle, files) ==
    /\ hasFileMonitor_' = monitorAfterRegistered
    /\ last' = [NoCall EXCEPT !.op = "onRegistered", !.hadProject = hasProject,
                  !.arg = <<handle>>,
                  !.trace = broadcast("onRegistered", <<handle, files>>,
                                      monitorSeenByRegisteredSlots)]

\* ProjectContext::fileMonitorRegistrationError
fileMonitorRegistrationError(error) ==
    /\ hasFileMonitor_' = monitorAfterRegistrationError
    /\ last' = [NoCall EXCEPT !.op = "onRegistrationError", !.hadProject = hasProject,
                  !.trace = broadcast("onRegistrationError", <<error>>,
                                      monitorSeenByRegistrationErrorSlots)]

\* ProjectContext::fileMonitorMonitoringError
fileMonitorMonitoringError(error) ==
    /\ hasFileMonitor_' = monitorAfterMonitoringError
    /\ last' = [NoCall EXCEPT !.op = "onMonitoringError", !.hadProject = hasProject,
                  !.trace = broadcast("onMonitoringError", <<error>>,
                                      monitorAfterMonitoringError)]

\* what fileMonitorFilesChanged does, in order
filesChangedTraceSubscribersFirst(events) ==
    broadcast("onFilesChanged", <<events>>, hasFileMonitor_)
      \o <<enqueFileChangedEvents(directory_, events, hasFileMonitor_)>>
filesChangedTrace(events) ==
    <<enqueFileChangedEvents(directory_, events, hasFileMonitor_)>>
      \o broadcast("onFilesChanged", <<events>>, hasFileMonitor_)

\* ProjectContext::fileMonitorFilesChanged
fileMonitorFilesChanged(events) ==
    /\ hasFileMonitor_' = hasFileMonitor_
    /\ last' = [NoCall EXCEPT !.op = "onFilesChanged", !.hadProject = hasProject,
                  !.arg = <<events>>, !.trace = filesChangedTrace(events)]

\* ProjectContext::fileMonitorUnregistered
fileMonitorUnregistered(handle) ==
    /\ hasFileMonitor_' = monitorAfterUnregistered
    /\ last' = [NoCall EXCEPT !.op = "onUnregistered", !.hadProject = hasProject,
                  !.arg = <<handle>>,
                  !.trace = broadcast("onUnregistered", <<handle>>,
                                      monitorSeenByUnregisteredSlots)]

\* ProjectContext::isMonitoringDirectory
isMonitoringDirectoryAnyState(dir) == hasProject /\ isWithin(dir, directory_)
isMonitoringDirectory(dir) ==
    hasProject /\ hasFileMonitor /\ isWithin(dir, directory_)

\* the calls each subscriber has got, after a handler that made the calls of trace
countCalls(trace) ==
    [sub \in 1..Len(registered) |->
        answersDelivered[sub]
          + Cardinality({i \in 1..Len(trace) :
                           trace[i].what = "call" /\ trace[i].sub = sub})]

\* ---- the file monitor answers the oldest request: registered, or an error
monitorRegisters ==
    /\ pending > 0
    /\ LET handle == resolved + 1
       IN  /\ fileMonitorRegistered(handle, requests[resolved + 1].path)
           /\ handles' = handles \cup {handle}
    /\ resolved' = resolved + 1
    /\ answersDelivered' = countCalls(last'.trace)
    /\ UNCHANGED <<fsVars, file_, directory_, scratchPath_, config_, defaultEncoding_,
                   signals, registered, deferredInitSlots, requests>>

monitorFailsToRegister ==
    /\ pending > 0
    /\ fileMonitorRegistrationError("registration failed")
    /\ resolved' = resolved + 1
    /\ answersDelivered' = countCalls(last'.trace)
    /\ UNCHANGED <<fsVars, file_, directory_, scratchPath_, config_, defaultEncoding_,
                   signals, registered, deferredInitSlots, requests, handles>>

\* ---- a live monitor reports
monitorReportsError ==
    /\ handles /= {}
    /\ fileMonitorMonitoringError("monitoring failed")
    /\ UNCHANGED <<fsVars, file_, directory_, scratchPath_, config_, defaultEncoding_,
                   signals, registered, answersDelivered, monVars>>

monitorReportsChanges(events) ==
    /\ handles /= {}
    /\ fileMonitorFilesChanged(events)
    /\ UNCHANGED <<fsVars, file_, directory_, scratchPath_, config_, defaultEncoding_,
                   signals, registered, answersDelivered, monVars>>

monitorUnregistersClosingProject(handle) ==
    /\ handle \in handles
    /\ fileMonitorUnregistered(handle)
    /\ handles' = handles \ {handle}
    /\ file_' = EmptyPath
    /\ directory_' = EmptyPath
    /\ UNCHANGED <<fsVars, scratchPath_, config_, defaultEncoding_,
                   signals, registered, answersDelivered, deferredInitSlots,
                   requests, resolved>>
monitorUnregisters(handle) ==
    /\ handle \in handles
    /\ fileMonitorUnregistered(handle)
    /\ handles' = handles \ {handle}
    /\ UNCHANGED <<fsVars, file_, directory_, scratchPath_, config_, defaultEncoding_,
                   signals, registered, answersDelivered, deferredInitSlots, requests, resolved>>

\* ---- the queries, called by other modules of the session
callUiPrefs ==
    /\ last' = [NoCall EXCEPT !.op = "uiPrefs", !.hadProject = hasProject,
                              !.returned = <<uiPrefs>>]
    /\ UNCHANGED <<fsVars, ctxVars, signals, registered, answersDelivered, monVars>>

callIsMonitoringDirectory(dir) ==
    /\ last' = [NoCall EXCEPT !.op = "isMonitoringDirectory", !.arg = dir,
                              !.hadProject = hasProject,
                              !.returned = <<isMonitoringDirectory(dir)>>]
    /\ UNCHANGED <<fsVars, ctxVars, signals, registered, answersDelivered, monVars>>

\* ------------------------------------------------------------ specification
RprojUserP == complete(DirP, ".Rproj.user")

\* no project is open, nobody has subscribed, nothing is monitored
InitContext ==
    /\ file_ = EmptyPath
    /\ directory_ = EmptyPath
    /\ scratchPath_ = EmptyPath
    /\ config_ = NoConfig
    /\ hasFileMonitor_ = FALSE
    /\ defaultEncoding_ = ""
    /\ signals = [k \in Kinds |-> <<>>]
    /\ registered = <<>>
    /\ answersDelivered = <<>>
    /\ deferredInitSlots = 0
    /\ requests = <<>>
    /\ resolved = 0
    /\ handles = {}
    /\ last = NoCall

\* Environment of the whole life cycle: the project file /p/proj.Rproj is
\* absent or lacks fields, and the directories and the file are writable.
Init ==
    /\ fsDirs = {Root, DirP, DirQ}
    /\ fsReadOnly = {}
    /\ \E present \in BOOLEAN :
         fsFiles = IF present THEN (FileP :> PartialContent) @@ (FileQ :> FullContent)
                   ELSE (FileQ :> FullContent)
    /\ username = "alice"
    /\ settingsEncoding = ""
    /\ InitContext

Next ==
    \/ startup(FileP, TRUE)
    \/ \E normalized \in NormalizeOutcomes : initialize(normalized)
    \/ deferredInitFires
    \/ \E cb \in CallbackSets : registerFileMonitorCallbacks(cb)
    \/ monitorRegisters
    \/ monitorFailsToRegister
    \/ monitorReportsError
    \/ \E events \in Batches : monitorReportsChanges(events)
    \/ \E handle \in handles : monitorUnregisters(handle)
    \/ callUiPrefs
    \/ \E dir \in {DirP, DirQ} : callIsMonitoringDirectory(dir)

Spec == Init /\ [][Next]_vars

\* Environments of the startup phase: /p/proj.Rproj may be absent, complete,
\* incomplete or malformed; /p may be read-only; /p/.Rproj.user may exist
\* already, possibly read-only (left behind by another user); the user name
\* and the default encoding of the settings may be empty.
InitStartup ==
    /\ \E preexisting \in BOOLEAN :
         fsDirs = {Root, DirP, DirQ} \cup (IF preexisting THEN {RprojUserP} ELSE {})
    /\ fsReadOnly \in SUBSET (fsDirs \ {Root, DirQ})
    /\ \E present \in BOOLEAN, content \in Contents :
         fsFiles = IF present THEN (FileP :> content) @@ (FileQ :> FullContent)
                   ELSE (FileQ :> FullContent)
    /\ username \in Usernames
    /\ settingsEncoding \in SettingsEncodings
    /\ InitContext

\* the two phases of the life cycle, before any monitor exists
NextStartup ==
    \/ \E projectFile \in ProjectFiles, writeOk \in BOOLEAN :
          startup(projectFile, writeOk)
    \/ \E normalized \in NormalizeOutcomes : initialize(normalized)

SpecStartup == InitStartup /\ [][NextStartup]_vars

\* ================================================================== claims
\* <parent>/.Rproj.user/<user>/<contextId>, the <user> level left out when the
\* user name is empty
scratchPathFor(projectFile) ==
    LET projectUserDir == complete(parent(projectFile), ".Rproj.user")
    IN  IF username = "" THEN projectUserDir \o <<contextId>>
        ELSE projectUserDir \o <<username, contextId>>

\* the last call was startup, for a project file that ...
StartupOfMissingFile == last.op = "startup" /\ last.arg \notin DOMAIN fsFiles
StartupInReadOnlyDir ==
    /\ last.op = "startup"
    /\ last.arg \in DOMAIN fsFiles
    /\ parent(last.arg) \in fsReadOnly
StartupOfValidFile ==
    /\ last.op = "startup"
    /\ last.arg \in DOMAIN fsFiles
    /\ fsFiles[last.arg].valid
    /\ parent(last.arg) \notin fsReadOnly

\* C1: a startup for a project file that does not exist returns the not-found
\* error with the user message "the project file does not exist", without the
\* writability probe, without computeScratchPath and without reading the
\* config; it creates no directory, and the scratch directory does not exist.
C1_MissingFileLeavesNothing ==
    /\ [](StartupOfMissingFile =>
            /\ last.result = "pathNotFound"
            /\ last.userErrMsg = "the project file does not exist"
            /\ last.probes = 0 /\ last.scratchCalls = 0 /\ last.reads = 0
            /\ last.created = {}
            /\ scratchPathFor(last.arg) \notin fsDirs)
    /\ [][StartupOfMissingFile' => (fsDirs' = fsDirs /\ fsFiles' = fsFiles)]_vars

C1_Witness == StartupOfMissingFile /\ last.result = "pathNotFound" /\ last.hadProject

\* C2: a startup for an existing project file in a directory the probe cannot
\* write to returns permission-denied after the probe, creates no directory
\* (computeScratchPath is not called) and neither reads nor rewrites the file.
C2_ReadOnlyDirStopsStartup ==
    /\ [](StartupInReadOnlyDir =>
            /\ last.result = "permissionDenied"
            /\ last.userErrMsg = "the project directory is not writeable"
            /\ last.probes = 1
            /\ last.scratchCalls = 0 /\ last.created = {}
            /\ last.reads = 0 /\ last.writes = 0)
    /\ [][StartupInReadOnlyDir' => (fsDirs' = fsDirs /\ fsFiles' = fsFiles)]_vars

C2_Witness ==
    /\ StartupInReadOnlyDir
    /\ last.result = "permissionDenied"
    /\ fsFiles[last.arg].valid

\* what a successful startup leaves in the context
StartupSucceeded ==
    /\ last.result = "ok"
    /\ file_ = last.arg
    /\ directory_ = parent(last.arg)
    /\ scratchPath_ = scratchPathFor(last.arg)
    /\ scratchPath_ \in fsDirs

\* C3 as stated: for every valid project file whose parent directory is
\* writable, startup succeeds and sets file, directory and scratch path.
C3_AsStated == StartupOfValidFile => StartupSucceeded

\* C3 amended: for every valid project file whose parent directory is writable
\* and whose scratch path can be resolved (no directory creation fails),
\* startup succeeds; the directory is the file's parent, the file is the
\* project file and the scratch path is <parent>/.Rproj.user[/<user>]/<contextId>.
C3_ValidFileStartsUp ==
    (StartupOfValidFile /\ last.result /= "ioError") => StartupSucceeded

C3_Witness ==
    /\ StartupOfValidFile
    /\ last.result = "ok"
    /\ last.created /= {}
    /\ last.hadProject

\* C4: the directory is set exactly when the config is set, and a startup
\* that fails (at whatever stage) changes none of file, directory, scratch
\* path, config and the monitor flag.
C4_IdentityAndConfigTogether ==
    /\ []((directory_ /= EmptyPath) <=> (config_ /= NoConfig))
    /\ [][(last'.op = "startup" /\ last'.result /= "ok") =>
            UNCHANGED <<file_, directory_, scratchPath_, config_, hasFileMonitor_>>]_vars

C4_Witness ==
    /\ last.op = "startup"
    /\ last.result = "loadError"
    /\ last.hadProject
    /\ directory_ /= EmptyPath
    /\ directory_ /= parent(last.arg)

\* C5: startup attempts one rewrite of the project file when the load
\* provided defaults and none when it did not; it succeeds whether or not the
\* rewrite does, and the config in the context is the loaded one either way
\* (a rewrite that succeeded leaves the filled-in config in the file).
C5_RewriteOnceWhenDefaulted ==
    (last.op = "startup" /\ last.reads = 1 /\ fsFiles[last.arg].valid) =>
        /\ last.result = "ok"
        /\ last.writes = (IF last.providedDefaults THEN 1 ELSE 0)
        /\ (~last.writeOk => last.writes = 1)
        /\ config_ = readProjectFile(contentOf(last.arg), defaultConfig).config
        /\ (last.writes = 1 /\ last.writeOk =>
               fsFiles[last.arg] = writtenContent(config_))
        /\ (last.writes = 1 /\ ~last.writeOk =>
               fsFiles[last.arg].present /= AllFields)

C5_Witness ==
    /\ last.op = "startup"
    /\ last.result = "ok"
    /\ last.providedDefaults
    /\ last.writes = 1
    /\ ~last.writeOk

\* the last call was initialize, made with a project active
InitializeWithProject == last.op = "initialize" /\ last.hadProject

\* C6: in initialize with a project active, a non-empty string returned by the
\* normalize call becomes the encoding and no warning is emitted; an empty
\* string makes the encoding "UTF-8" with exactly one non-severe warning that
\* names the configured encoding; a failed call makes initialize return the
\* error, with no warning and no subscription to the deferred-init signal.
C6_EncodingResolution ==
    /\ [](InitializeWithProject =>
            /\ (last.normalized \notin {"", CallError} =>
                  /\ last.result = "ok"
                  /\ defaultEncoding = last.normalized
                  /\ last.events = <<>>)
            /\ (last.normalized = "" =>
                  /\ last.result = "ok"
                  /\ defaultEncoding = "UTF-8"
                  /\ Len(last.events) = 1
                  /\ last.events[1].type = "show_warning_bar"
                  /\ last.events[1].severe = FALSE
                  /\ last.events[1].encoding = config_.encoding)
            /\ (last.normalized = CallError =>
                  /\ last.result = "callError"
                  /\ last.events = <<>>
                  /\ last.connects = 0))
    /\ [][(InitializeWithProject' /\ last'.normalized = CallError) =>
            deferredInitSlots' = deferredInitSlots]_vars

C6_Witness ==
    /\ InitializeWithProject
    /\ last.normalized = ""
    /\ defaultEncoding = "UTF-8"
    /\ config_.encoding = "windows-1252"
    /\ Len(last.events) = 1

\* C7 as stated: after an initialize call has completed, whatever startup
\* calls preceded it, the resolved encoding is not empty.
C7_AsStated ==
    (last.op = "initialize" /\ last.result = "ok") =>
        (defaultEncoding /= "" /\ uiPrefs.default_encoding /= "")

\* C7 amended: after an initialize call made with a project active has
\* returned success, defaultEncoding and the default_encoding field of uiPrefs
\* are not empty, and no later call of any operation empties them.
C7_EncodingNeverEmpty ==
    /\ []((InitializeWithProject /\ last.result = "ok") =>
            (defaultEncoding /= "" /\ uiPrefs.default_encoding /= ""))
    /\ [][defaultEncoding /= "" =>
            (defaultEncoding' /= "" /\ uiPrefs'.default_encoding /= "")]_vars

C7_Witness ==
    /\ InitializeWithProject
    /\ last.result = "ok"
    /\ last.normalized = ""
    /\ uiPrefs.default_encoding = "UTF-8"

\* dir is the directory scope or lies beneath it: scope is a prefix of dir
IsAtOrBeneath(dir, scope) ==
    /\ Len(dir) >= Len(scope)
    /\ \A i \in 1..Len(scope) : dir[i] = scope[i]

\* C8: isMonitoringDirectory(dir) is true exactly when a project is active, the
\* monitor flag is set and dir is the project directory or beneath it; it is
\* false for the parent of the project directory and for its siblings.
C8_IsMonitoringDirectory ==
    /\ \A dir \in QueryDirs :
          isMonitoringDirectory(dir) <=>
             (directory_ /= EmptyPath /\ hasFileMonitor_
                /\ IsAtOrBeneath(dir, directory_))
    /\ \A dir \in QueryDirs :
          (dir = parent(directory_)
             \/ (parent(dir) = parent(directory_) /\ dir /= directory_))
          => ~isMonitoringDirectory(dir)

C8_Witness ==
    /\ last.op = "onRegistered"
    /\ isMonitoringDirectory(directory_)
    /\ isMonitoringDirectory(complete(complete(DirP, "src"), "cpp"))
    /\ ~isMonitoringDirectory(DirQ)
    /\ ~isMonitoringDirectory(Root)

\* C9: the monitor flag is set right after a successful startup (before any
\* registration request) and after onRegistered, and is clear after
\* onRegistrationError and onUnregistered; isMonitoringDirectory of the project
\* directory is true right after startup and false after onRegistrationError.
C9_MonitorFlag ==
    /\ (last.op = "startup" /\ last.result = "ok") =>
          (hasFileMonitor /\ isMonitoringDirectory(directory_))
    /\ last.op = "onRegistered" => hasFileMonitor
    /\ last.op \in {"onRegistrationError", "onUnregistered"} =>
          (~hasFileMonitor /\ ~isMonitoringDirectory(directory_))

C9_Witness ==
    /\ last.op = "onRegistrationError"
    /\ resolved = 1
    /\ hasProject
    /\ ~isMonitoringDirectory(directory_)

\* the subscribers that attached a callback of the kind, in registration order
RECURSIVE SubscribersUpTo(_, _)
SubscribersUpTo(kind, n) ==
    IF n = 0 THEN <<>>
    ELSE IF kind \in registered[n]
         THEN Append(SubscribersUpTo(kind, n - 1), n)
         ELSE SubscribersUpTo(kind, n - 1)
SubscribersOf(kind) == SubscribersUpTo(kind, Len(registered))

\* the subscriber callbacks the last call invoked, in order
IsCall(entry) == entry.what = "call"
CallsMade == SelectSeq(last.trace, IsCall)

\* C10: every onFilesChanged batch is delivered to each subscriber that
\* attached a FilesChanged callback exactly once, in registration order.
C10_FilesChangedFanOut ==
    last.op = "onFilesChanged" =>
        /\ [i \in 1..Len(CallsMade) |-> CallsMade[i].sub] = SubscribersOf("onFilesChanged")
        /\ \A i \in 1..Len(CallsMade) :
              /\ CallsMade[i].kind = "onFilesChanged"
              /\ CallsMade[i].payload = last.arg

C10_Witness ==
    /\ last.op = "onFilesChanged"
    /\ Len(CallsMade) >= 2
    /\ Len(registered) >= 2

\* the subscriber attached both callbacks that answer a registration request
WantsAnswers(sub) == {"onRegistered", "onRegistrationError"} \subseteq registered[sub]

\* C11 as stated: whenever a subscriber registered, before or after the
\* registration completed, it misses no monitor event: every subscriber that
\* attached the Registered and RegistrationError callbacks has been called for
\* every answer the file monitor has given.
C11_AsStated ==
    \A sub \in 1..Len(registered) :
        WantsAnswers(sub) => answersDelivered[sub] = resolved

\* C11 amended: subscribers may register at any time, and nothing is held or
\* replayed: a registration calls nobody, a new subscriber starts with no
\* event delivered, and from then on every answer of the file monitor reaches
\* every subscriber that attached the callbacks; so a subscriber misses exactly
\* the events handled before it registered (none, if it registered before the
\* registration request was answered).
C11_EventsFromRegistrationOn ==
    /\ [](last.op = "registerFileMonitorCallbacks" =>
            (last.trace = <<>> /\ answersDelivered[Len(registered)] = 0))
    /\ [][\A sub \in 1..Len(registered) :
            WantsAnswers(sub) =>
               answersDelivered'[sub] - answersDelivered[sub] = resolved' - resolved]_vars

C11_Witness ==
    /\ Len(registered) = 2
    /\ WantsAnswers(1) /\ WantsAnswers(2)
    /\ resolved = 2
    /\ answersDelivered = <<2, 1>>

\* C12: once computeScratchPath has succeeded for a project file, calling it
\* again for the same file, user name and context id succeeds, creates no
\* directory and returns the same path, which is
\* <parent>/.Rproj.user/<user>/<contextId>, without the <user> level when the
\* user name is empty.
C12_ScratchPathIdempotent ==
    (last.op = "startup" /\ last.scratchCalls = 1 /\ last.result /= "ioError") =>
        LET again == computeScratchPath(last.arg)
        IN  /\ ~again.error
            /\ again.dirs = fsDirs
            /\ again.scratchPath = scratchPathFor(last.arg)
            /\ again.scratchPath \in fsDirs
            /\ (last.result = "ok" => again.scratchPath = scratchPath_)

C12_Witness ==
    /\ last.op = "startup"
    /\ last.result = "ok"
    /\ username = ""
    /\ Cardinality(last.created) = 2
    /\ scratchPath_ = <<"/", "p", ".Rproj.user", "ctx1">>

\* C13: with no project active initialize returns success without calling the
\* normalize function, without a warning event and without subscribing to the
\* deferred-init signal, and changes no state of the context or around it.
C13_InitializeWithoutProject ==
    /\ []((last.op = "initialize" /\ ~last.hadProject) =>
            /\ last.result = "ok"
            /\ last.normalizeCalls = 0
            /\ last.events = <<>>
            /\ last.connects = 0)
    /\ [][(last'.op = "initialize" /\ ~last'.hadProject) =>
            UNCHANGED <<fsVars, ctxVars, signals, registered, monVars>>]_vars

C13_Witness ==
    /\ last.op = "initialize"
    /\ ~last.hadProject
    /\ Len(registered) > 0
    /\ fsFiles[FileQ].valid

\* the last call invoked exactly the callbacks of the kind that subscribers
\* attached, once each and in registration order, with the payload
DeliveredToAll(kind, payload) ==
    /\ [i \in 1..Len(CallsMade) |-> CallsMade[i].sub] = SubscribersOf(kind)
    /\ \A i \in 1..Len(CallsMade) :
          CallsMade[i].kind = kind /\ CallsMade[i].payload = payload

\* C14: onMonitoringError leaves the monitor flag, and so isMonitoringDirectory
\* of every path, as it was, and calls every MonitoringError subscriber once
\* with the error.
C14_MonitoringErrorKeepsState ==
    /\ [](last.op = "onMonitoringError" =>
            DeliveredToAll("onMonitoringError", <<"monitoring failed">>))
    /\ [][last'.op = "onMonitoringError" =>
            /\ hasFileMonitor' = hasFileMonitor
            /\ \A dir \in QueryDirs :
                  isMonitoringDirectory(dir)' = isMonitoringDirectory(dir)]_vars

C14_Witness ==
    /\ last.op = "onMonitoringError"
    /\ hasFileMonitor
    /\ isMonitoringDirectory(directory_)
    /\ Len(CallsMade) = 2

\* C15 as stated: once initialize has subscribed, one firing of the
\* deferred-init signal issues one registration request.
C15_AsStated ==
    (last.op = "deferredInit" /\ deferredInitSlots >= 1) => last.requestsIssued = 1

\* C15 amended: an initialize call subscribes to the deferred-init signal once
\* if it is made with a project active and succeeds, and not at all otherwise;
\* startup and initialize issue no registration request; a firing of the
\* signal issues one request per subscription made so far (one if exactly one
\* initialize subscribed), each for the project directory, recursive and with
\* the file-listing filter; nothing else issues a request.
C15_DeferredRegistration ==
    /\ [](last.op = "initialize" =>
            last.connects = (IF last.hadProject /\ last.result = "ok" THEN 1 ELSE 0))
    /\ [](last.op = "deferredInit" => last.requestsIssued = deferredInitSlots)
    /\ [][last'.op = "initialize" =>
            deferredInitSlots' = deferredInitSlots + last'.connects]_vars
    /\ [][last'.op \in {"startup", "initialize"} => requests' = requests]_vars
    /\ [][requests' /= requests => last'.op = "deferredInit"]_vars
    /\ [][last'.op = "deferredInit" =>
            /\ Len(requests') = Len(requests) + deferredInitSlots
            /\ SubSeq(requests', 1, Len(requests)) = requests
            /\ \A i \in (Len(requests) + 1)..Len(requests') :
                  requests'[i] = [path |-> directory_, recursive |-> TRUE,
                                  filter |-> "fileListingFilter"]]_vars

C15_Witness ==
    /\ last.op = "deferredInit"
    /\ deferredInitSlots = 1
    /\ last.requestsIssued = 1
    /\ requests = <<[path |-> DirP, recursive |-> TRUE, filter |-> "fileListingFilter"]>>

\* C16: after onRegistrationError the monitor flag is clear, every
\* RegistrationError subscriber has been called once with the error, and no
\* registration request has been issued in response.
C16_NoRetryAfterRegistrationError ==
    /\ [](last.op = "onRegistrationError" =>
            /\ ~hasFileMonitor
            /\ DeliveredToAll("onRegistrationError", <<"registration failed">>))
    /\ [][last'.op = "onRegistrationError" => requests' = requests]_vars

C16_Witness ==
    /\ last.op = "onRegistrationError"
    /\ Len(CallsMade) = 2
    /\ pending = 0
    /\ resolved = 1

\* what onRegistered and onUnregistered do apart from recording the handle
RegisteredAndUnregisteredRebroadcast ==
    /\ last.op = "onRegistered" =>
          /\ hasFileMonitor
          /\ DeliveredToAll("onRegistered", <<last.arg[1], requests[resolved].path>>)
    /\ last.op = "onUnregistered" =>
          /\ ~hasFileMonitor
          /\ DeliveredToAll("onUnregistered", last.arg)

C18_IdentitySetOnlyByStartup ==
    /\ [][last'.op /= "startup" =>
            UNCHANGED <<file_, directory_, scratchPath_, config_>>]_vars
    /\ [][last'.op \in {"uiPrefs", "isMonitoringDirectory"} =>
            UNCHANGED <<fsVars, ctxVars, signals, registered, monVars>>]_vars

C18_Witness ==
    /\ last.op = "onUnregistered"
    /\ file_ = FileP
    /\ directory_ = DirP
    /\ scratchPath_ = scratchPathFor(FileP)
    /\ defaultEncoding = "UTF-8"

\* the entries of the last call's trace that enqueue on the file-change channel
IsEnqueue(entry) == entry.what = "enqueFileChangedEvents"

\* C19: onFilesChanged enqueues the batch once on the process-wide channel,
\* keyed by the project directory, whatever the subscriber list is (also when
\* it is empty), and does so before it calls any subscriber.
C19_EnqueueBeforeSubscribers ==
    last.op = "onFilesChanged" =>
        /\ Len(last.trace) = 1 + Len(SubscribersOf("onFilesChanged"))
        /\ Len(SelectSeq(last.trace, IsEnqueue)) = 1
        /\ IsEnqueue(last.trace[1])
        /\ last.trace[1].payload = <<directory_, last.arg[1]>>
        /\ \A i \in 2..Len(last.trace) : IsCall(last.trace[i])

C19_Witness ==
    /\ last.op = "onFilesChanged"
    /\ last.arg = <<"batch2">>
    /\ Len(last.trace) = 2
    /\ Len(registered) = 2

\* C20: the callbacks of onRegistered see the monitor flag set, those of
\* onRegistrationError and onUnregistered see it clear: the flag seen during
\* delivery is the one the handler leaves behind.
C20_FlagUpdatedBeforeRebroadcast ==
    /\ last.op = "onRegistered" =>
          \A i \in 1..Len(CallsMade) : CallsMade[i].monitor
    /\ last.op \in {"onRegistrationError", "onUnregistered"} =>
          \A i \in 1..Len(CallsMade) : ~CallsMade[i].monitor
    /\ last.op \in {"onRegistered", "onRegistrationError", "onUnregistered"} =>
          \A i \in 1..Len(CallsMade) : CallsMade[i].monitor = hasFileMonitor

C20_Witness ==
    /\ last.op = "onRegistrationError"
    /\ resolved = 1
    /\ Len(CallsMade) >= 1
    /\ ~CallsMade[1].monitor

====
